---- MODULE Spec2Model ----
(***************************************************************************)
(* SwcNeuronImporter (src/__init__.py): reading an SWC file into the node  *)
(* table, resolving parent references into edges, and building the         *)
(* skeleton mesh and the sphere (marker) mesh.                             *)
(*                                                                         *)
(* execute is modelled in three steps, split at the file reads:            *)
(*   load_swc_file_open   lines 59-64: the fields are reset, the file      *)
(*                        is opened                                        *)
(*   load_swc_file_line   lines 65-87: one iteration of `for line in fh`   *)
(*   execute_finish       lines 88-96 and 42-56: end of file, the edges    *)
(*                        are resolved and the scene objects are created   *)
(* A python dict is an association list in insertion order (assigning to   *)
(* an existing key keeps the key's place). Floats are drawn from values    *)
(* that are exact, with even radii so that 0.5 * radius is a whole number. *)
(***************************************************************************)
EXTENDS Integers, Sequences, FiniteSets, TLC

VARIABLES
    nodes,          \* self.nodes: dict id -> record, as a sequence in key order
    first_node,     \* self.first_node: <<>> is None, <<rec>> a record
    index_from_id,  \* self.index_from_id: function id -> index
    vertices,       \* self.vertices: list of xyz
    edges,          \* self.edges: <<>> while the attribute is not set, else
                    \* <<list of (v1, v2)>>
    node_count,     \* local node_count of load_swc_file
    file,           \* the lines read so far by the current `for line in fh`
    pc,             \* "idle", "reading", "done", "failed"
    error,          \* "none", "ValueError", "AttributeError"
    created,        \* objects this execute added to the scene, in order
    skeleton,       \* local skeleton of execute: <<>> or <<mesh>>
    spheres,        \* local spheres of execute: <<>> or <<mesh>>
    reads           \* lines this importer has read from disk so far

vars == <<nodes, first_node, index_from_id, vertices, edges, node_count,
          file, pc, error, created, skeleton, spheres, reads>>

\* ------------------------------------------------------------------ bounds
MaxId == 2
MaxLines == 2
MaxReads == 3

\* ------------------------------------------------------------------ input
Ids == 1 .. MaxId
ParentIds == {-1} \cup Ids

\* (type, xyz, radius) of a data line
Payloads ==
    { [type |-> 1, xyz |-> <<0, 0, 0>>, radius |-> 2],
      [type |-> 3, xyz |-> <<9, 9, 9>>, radius |-> 4] }

\* A whitespace-separated field: an integer literal ("5"), a float literal
\* ("5.0") or a word ("abc").
IntTok(n) == [kind |-> "int", val |-> n]
FloatTok(n) == [kind |-> "float", val |-> n]
WordTok == [kind |-> "word", val |-> 0]

DataFields(id, p, parent) ==
    << IntTok(id), IntTok(p.type), FloatTok(p.xyz[1]), FloatTok(p.xyz[2]),
       FloatTok(p.xyz[3]), FloatTok(p.radius), IntTok(parent) >>

DataLines ==
    { [comment |-> FALSE, fields |-> DataFields(id, p, parent)] :
        id \in Ids, p \in Payloads, parent \in ParentIds }

SomePayload == [type |-> 1, xyz |-> <<0, 0, 0>>, radius |-> 2]

\* "# 1 1 0.0 0.0 0.0 2.0 1": seven fields behind a '#'
CommentLines == { [comment |-> TRUE, fields |-> DataFields(1, SomePayload, 1)] }

\* a blank line, and a record cut after six fields
ShortLines ==
    { [comment |-> FALSE, fields |-> <<>>],
      [comment |-> FALSE, fields |-> SubSeq(DataFields(1, SomePayload, 1), 1, 6)] }

\* a record with a trailing eighth field
LongLines ==
    { [comment |-> FALSE,
       fields |-> Append(DataFields(1, SomePayload, -1), WordTok)] }

\* field 3 is "abc"; the id is written "1.0"
BadLines ==
    { [comment |-> FALSE,
       fields |-> [DataFields(1, SomePayload, -1) EXCEPT ![4] = WordTok]],
      [comment |-> FALSE,
       fields |-> [DataFields(1, SomePayload, -1) EXCEPT ![1] = FloatTok(1)]] }

Lines == DataLines \cup CommentLines \cup ShortLines \cup LongLines \cup BadLines

\* ------------------------------------------------------------------ parsing
\* int(s) raises ValueError unless s is an integer literal
IntOk(tok) == tok.kind = "int"
\* float(s) accepts integer and float literals
FloatOk(tok) == tok.kind \in {"int", "float"}

\* lines 66-70: the line is a comment, or has fewer than 7 fields
SkipLineNoComment(line) == Len(line.fields) < 7
SkipLine(line) == line.comment \/ Len(line.fields) < 7

\* lines 71-75: every conversion succeeds
ConvertOk(fields) ==
    /\ IntOk(fields[1])
    /\ IntOk(fields[2])
    /\ \A k \in 3 .. 5 : FloatOk(fields[k])
    /\ FloatOk(fields[6])
    /\ IntOk(fields[7])

\* lines 71-82: the record stored in self.nodes[id]
NodeOf(fields) ==
    [id |-> fields[1].val,
     type |-> fields[2].val,
     xyz |-> <<fields[3].val, fields[4].val, fields[5].val>>,
     radius |-> fields[6].val,
     parent_id |-> fields[7].val]

\* ------------------------------------------------------------------ tables
HasKey(d, id) == \E k \in 1 .. Len(d) : d[k].id = id

KeyPos(d, id) == CHOOSE k \in 1 .. Len(d) : d[k].id = id

\* d[id]
DictGet(d, id) == d[KeyPos(d, id)]

\* d[id] = rec
DictSet(d, id, rec) ==
    IF HasKey(d, id) THEN [d EXCEPT ![KeyPos(d, id)] = rec] ELSE Append(d, rec)

EmptyTable ==
    [nodes |-> <<>>, first_node |-> <<>>, index_from_id |-> <<>>,
     vertices |-> <<>>, node_count |-> 0]

\* lines 76-87 on the table t
InsertRecordOneBased(t, rec) ==
    [nodes |-> DictSet(t.nodes, rec.id, rec),
     first_node |-> IF t.first_node = <<>> THEN <<rec>> ELSE t.first_node,
     vertices |-> Append(t.vertices, rec.xyz),
     index_from_id |-> (rec.id :> (t.node_count + 1)) @@ t.index_from_id,
     node_count |-> t.node_count + 1]
InsertRecord(t, rec) ==
    [nodes |-> DictSet(t.nodes, rec.id, rec),
     first_node |-> IF t.first_node = <<>> THEN <<rec>> ELSE t.first_node,
     vertices |-> Append(t.vertices, rec.xyz),
     index_from_id |-> (rec.id :> t.node_count) @@ t.index_from_id,
     node_count |-> t.node_count + 1]

\* lines 89-95
RECURSIVE ResolveFrom(_, _, _)
ResolveFrom(ns, idx, k) ==
    IF k > Len(ns) THEN <<>>
    ELSE LET data == ns[k]
             rest == ResolveFrom(ns, idx, k + 1)
         IN  IF data.parent_id \notin DOMAIN idx THEN rest
             ELSE << <<idx[data.id], idx[data.parent_id]>> >> \o rest

RECURSIVE ResolveSwappedFrom(_, _, _)
ResolveSwappedFrom(ns, idx, k) ==
    IF k > Len(ns) THEN <<>>
    ELSE LET data == ns[k]
             rest == ResolveSwappedFrom(ns, idx, k + 1)
         IN  IF data.parent_id \notin DOMAIN idx THEN rest
             ELSE << <<idx[data.parent_id], idx[data.id]>> >> \o rest

RECURSIVE ResolveEagerFrom(_, _, _)
ResolveEagerFrom(ns, idx, k) ==
    IF k > Len(ns) THEN <<>>
    ELSE LET data == ns[k]
             rest == ResolveEagerFrom(ns, idx, k + 1)
         IN  IF \/ data.parent_id \notin DOMAIN idx
                \/ idx[data.parent_id] > idx[data.id] THEN rest
             ELSE << <<idx[data.id], idx[data.parent_id]>> >> \o rest

ResolveEdgesSwapped(ns, idx) == ResolveSwappedFrom(ns, idx, 1)
ResolveEdgesEager(ns, idx) == ResolveEagerFrom(ns, idx, 1)
ResolveEdges(ns, idx) == ResolveFrom(ns, idx, 1)

\* lines 104-115: verts and faces of the sphere mesh
RECURSIVE SphereQuads(_, _, _, _)
SphereQuads(ns, k, verts, faces) ==
    IF k > Len(ns) THEN [verts |-> verts, faces |-> faces]
    ELSE LET data == ns[k]
             i == Len(verts)
             x == data.xyz[1]
             y == data.xyz[2]
             z == data.xyz[3]
             r == data.radius \div 2
         IN  SphereQuads(ns, k + 1,
                 verts \o << <<x - r, y - r, z>>, <<x - r, y + r, z>>,
                             <<x + r, y + r, z>>, <<x + r, y - r, z>> >>,
                 Append(faces, <<i, i + 1, i + 2, i + 3>>))

\* create_node_spheres: the mesh of the object it returns
create_node_spheres(ns) == SphereQuads(ns, 1, <<>>, <<>>)

\* create_skeleton: <<>> (None) for an empty table, else the mesh
create_skeleton(ns, vs, es) ==
    IF Len(ns) <= 0 THEN <<>> ELSE << [vertices |-> vs, edges |-> es] >>

\* ------------------------------------------------------------------ state
Init ==
    /\ nodes = <<>>
    /\ first_node = <<>>
    /\ index_from_id = <<>>
    /\ vertices = <<>>
    /\ edges = <<>>
    /\ node_count = 0
    /\ file = <<>>
    /\ pc = "idle"
    /\ error = "none"
    /\ created = <<>>
    /\ skeleton = <<>>
    /\ spheres = <<>>
    /\ reads = 0

Table ==
    [nodes |-> nodes, first_node |-> first_node, index_from_id |-> index_from_id,
     vertices |-> vertices, node_count |-> node_count]

\* execute is called; load_swc_file lines 59-64
load_swc_file_openKeepVertices ==
    /\ pc \in {"idle", "done", "failed"}
    /\ nodes' = <<>>
    /\ first_node' = <<>>
    /\ index_from_id' = <<>>
    /\ vertices' = vertices
    /\ node_count' = 0
    /\ file' = <<>>
    /\ pc' = "reading"
    /\ error' = "none"
    /\ created' = <<>>
    /\ skeleton' = <<>>
    /\ spheres' = <<>>
    /\ UNCHANGED <<edges, reads>>
load_swc_file_openRootFirst ==
    /\ pc \in {"idle", "done", "failed"}
    /\ nodes' = <<>>
    /\ first_node' = <<>>
    /\ index_from_id' = <<>>
    /\ vertices' = <<>>
    /\ node_count' = 0
    /\ file' = <<>>
    /\ pc' = "reading"
    /\ error' = "none"
    /\ created' = <<"root">>
    /\ skeleton' = <<>>
    /\ spheres' = <<>>
    /\ UNCHANGED <<edges, reads>>
load_swc_file_open ==
    /\ pc \in {"idle", "done", "failed"}
    /\ nodes' = <<>>
    /\ first_node' = <<>>
    /\ index_from_id' = <<>>
    /\ vertices' = <<>>
    /\ node_count' = 0
    /\ file' = <<>>
    /\ pc' = "reading"
    /\ error' = "none"
    /\ created' = <<>>
    /\ skeleton' = <<>>
    /\ spheres' = <<>>
    /\ UNCHANGED <<edges, reads>>

\* one iteration of the loop of lines 65-87 on the line read
load_swc_file_line(line) ==
    /\ pc = "reading"
    /\ Len(file) < MaxLines
    /\ reads < MaxReads
    /\ file' = Append(file, line)
    /\ reads' = reads + 1
    /\ IF SkipLine(line)
       THEN UNCHANGED <<nodes, first_node, index_from_id, vertices,
                        node_count, pc, error>>
       ELSE IF ~ConvertOk(line.fields)
       THEN /\ pc' = "failed"
            /\ error' = "ValueError"
            /\ UNCHANGED <<nodes, first_node, index_from_id, vertices, node_count>>
       ELSE LET t == InsertRecord(Table, NodeOf(line.fields))
            IN  /\ nodes' = t.nodes
                /\ first_node' = t.first_node
                /\ index_from_id' = t.index_from_id
                /\ vertices' = t.vertices
                /\ node_count' = t.node_count
                /\ UNCHANGED <<pc, error>>
    /\ UNCHANGED <<edges, created, skeleton, spheres>>

\* end of file: lines 88-96, then execute lines 42-56
execute_finish ==
    /\ pc = "reading"
    /\ edges' = << ResolveEdges(nodes, index_from_id) >>
    /\ LET sk == create_skeleton(nodes, vertices, edges'[1])
       IN  /\ skeleton' = sk
           /\ IF sk = <<>>
              THEN \* line 50: None has no attribute parent
                   /\ pc' = "failed"
                   /\ error' = "AttributeError"
                   /\ created' = <<"root">>
                   /\ spheres' = <<>>
              ELSE /\ pc' = "done"
                   /\ error' = "none"
                   /\ created' = <<"root", "skeleton", "spheres", "ball">>
                   /\ spheres' = << create_node_spheres(nodes) >>
    /\ UNCHANGED <<nodes, first_node, index_from_id, vertices, node_count,
                   file, reads>>

Next ==
    \/ load_swc_file_open
    \/ \E line \in Lines : load_swc_file_line(line)
    \/ execute_finish

Spec == Init /\ [][Next]_vars

\* ------------------------------------------------------------------ views
\* self.edges as a list (empty while the attribute is not set)
EdgeList == IF edges = <<>> THEN <<>> ELSE edges[1]

\* load_swc_file returned: execute finished, or failed later at line 50
LoadSucceeded == pc = "done" \/ (pc = "failed" /\ error = "AttributeError")

\* the lines of ls that are neither a comment nor shorter than 7 fields
IsRecordLine(l) == ~l.comment /\ Len(l.fields) >= 7
RecordLines(ls) == SelectSeq(ls, IsRecordLine)

\* the table built from scratch out of the record lines rs, none skipped
RECURSIVE TableOfRecords(_, _)
TableOfRecords(t, rs) ==
    IF rs = <<>> THEN t
    ELSE TableOfRecords(InsertRecord(t, NodeOf(Head(rs).fields)), Tail(rs))

\* the table built from scratch out of the lines ls, skipping as the loop does
RECURSIVE TableOfLines(_, _)
TableOfLines(t, ls) ==
    IF ls = <<>> THEN t
    ELSE IF SkipLine(Head(ls)) THEN TableOfLines(t, Tail(ls))
    ELSE TableOfLines(InsertRecord(t, NodeOf(Head(ls).fields)), Tail(ls))

\* the lines before the one that raised, or the whole file
ReadBeforeError ==
    IF error = "ValueError" THEN SubSeq(file, 1, Len(file) - 1) ELSE file

\* centre of marker i (from 1) of a sphere mesh: the middle of its quad
MarkerCentre(mesh, i) ==
    LET f == mesh.faces[i]
        a == mesh.verts[f[1] + 1]
        c == mesh.verts[f[3] + 1]
    IN  << (a[1] + c[1]) \div 2, (a[2] + c[2]) \div 2, a[3] >>

\* the edges es as pairs of ids, under the id -> index map idx
IdEdges(idx, es) ==
    { p \in (DOMAIN idx) \X (DOMAIN idx) :
        \E j \in 1 .. Len(es) : es[j] = <<idx[p[1]], idx[p[2]]>> }

\* the record lines of ls grouped by id, ascending (up = TRUE) or descending,
\* the lines of one id kept in their order
RECURSIVE GroupedById(_, _, _)
GroupedById(ls, i, up) ==
    IF i < 1 \/ i > MaxId THEN <<>>
    ELSE LET mine == SelectSeq(ls, LAMBDA l : IsRecordLine(l) /\ l.fields[1].val = i)
         IN  mine \o GroupedById(ls, IF up THEN i + 1 ELSE i - 1, up)

IdEdgesOfFile(ls) ==
    LET t == TableOfLines(EmptyTable, ls)
    IN  IdEdges(t.index_from_id, ResolveEdges(t.nodes, t.index_from_id))

\* ------------------------------------------------------------------ claims

\* C1: after load_swc_file succeeds, every node whose parent_id is an id of
\* the table has exactly one edge (its index, its parent's index) in the edge
\* list, and a node whose parent_id is no id of the table has no edge.
C1_OneEdgePerResolvedParent ==
    LoadSucceeded =>
        \A k \in 1 .. Len(nodes) :
            LET n == nodes[k]
                i == index_from_id[n.id]
            IN  IF HasKey(nodes, n.parent_id)
                THEN Cardinality({ j \in 1 .. Len(EdgeList) :
                        EdgeList[j] = <<i, index_from_id[n.parent_id]>> }) = 1
                ELSE \A j \in 1 .. Len(EdgeList) : EdgeList[j][1] # i

\* a load with a child of a node of the table and a node without parent
C1_Witness ==
    /\ pc = "done"
    /\ \E k \in 1 .. Len(nodes) :
          HasKey(nodes, nodes[k].parent_id) /\ nodes[k].parent_id # nodes[k].id
    /\ \E k \in 1 .. Len(nodes) : ~HasKey(nodes, nodes[k].parent_id)

\* C2: after execute, the sphere mesh has as many markers as the skeleton has
\* vertices, and marker i is centred on vertex i.
C2_MarkersAlignWithVertices ==
    pc = "done" =>
        /\ Len(spheres[1].faces) = Len(vertices)
        /\ \A i \in 1 .. Len(vertices) : MarkerCentre(spheres[1], i) = vertices[i]

\* the index (from 0) the first record line with this id was given
FirstSeenIndex(rs, id) ==
    (CHOOSE k \in 1 .. Len(rs) :
        /\ rs[k].fields[1].val = id
        /\ \A m \in 1 .. k - 1 : rs[m].fields[1].val # id) - 1

\* the record of the last record line with this id
LastContent(rs, id) ==
    NodeOf(rs[CHOOSE k \in 1 .. Len(rs) :
        /\ rs[k].fields[1].val = id
        /\ \A m \in k + 1 .. Len(rs) : rs[m].fields[1].val # id].fields)

\* C3: an id that is repeated has one entry, with the content of its last
\* line, keeps the index it was given first, and adds no position slot.
C3_DuplicateKeepsFirstIndex ==
    LoadSucceeded =>
        LET rs == RecordLines(file)
        IN  /\ \A k \in 1 .. Len(nodes) :
                  /\ \A m \in 1 .. Len(nodes) : nodes[m].id = nodes[k].id => m = k
                  /\ nodes[k] = LastContent(rs, nodes[k].id)
                  /\ index_from_id[nodes[k].id] = FirstSeenIndex(rs, nodes[k].id)
            /\ Len(vertices) = Len(nodes)

\* C4: after load_swc_file succeeds, the edge list holds no pair (i, i).
C4_NoSelfLoopEdge ==
    LoadSucceeded =>
        \A j \in 1 .. Len(EdgeList) : EdgeList[j][1] # EdgeList[j][2]

\* C5 as stated: after a conversion error the importer holds no nodes,
\* vertices or edges, and no scene object was created.
C5_NothingHeldAfterError ==
    (pc = "failed" /\ error = "ValueError") =>
        /\ nodes = <<>>
        /\ vertices = <<>>
        /\ EdgeList = <<>>
        /\ created = <<>>
        /\ skeleton = <<>>
        /\ spheres = <<>>

\* C5 as amended: a record line with a field that does not convert ends the
\* import with a ValueError at that line; the step creates no scene object,
\* skeleton or sphere mesh, leaves the edges as they were before the load and
\* leaves nodes, first_node, index_from_id and vertices as the lines before
\* it built them.
C5_ErrorAbortsBeforeAnyObject ==
    [][ /\ (\E k \in 1 .. Len(file') :
               IsRecordLine(file'[k]) /\ ~ConvertOk(file'[k].fields))
           => (pc' = "failed" /\ error' = "ValueError")
        /\ (pc' = "failed" /\ error' = "ValueError" /\ pc = "reading")
           => /\ IsRecordLine(file'[Len(file')])
              /\ ~ConvertOk(file'[Len(file')].fields)
              /\ created' = <<>>
              /\ skeleton' = <<>>
              /\ spheres' = <<>>
              /\ edges' = edges
              /\ nodes' = nodes
              /\ first_node' = first_node
              /\ index_from_id' = index_from_id
              /\ vertices' = vertices
              /\ nodes' = TableOfLines(EmptyTable,
                              SubSeq(file', 1, Len(file') - 1)).nodes
      ]_vars

\* a failed load after a record line, on an importer with edges of an
\* earlier load
C5_Witness ==
    /\ pc = "failed"
    /\ error = "ValueError"
    /\ nodes # <<>>
    /\ vertices # <<>>
    /\ EdgeList # <<>>

\* C6: a file without any record line makes execute finish without error,
\* with empty vertices, edges and markers.
C6_EmptyInputIsNoOp ==
    (pc \in {"done", "failed"} /\ RecordLines(file) = <<>>) =>
        /\ pc = "done"
        /\ error = "none"
        /\ vertices = <<>>
        /\ EdgeList = <<>>
        /\ spheres # <<>>
        /\ spheres[1].faces = <<>>

C8_SkippedLinesLeaveTable ==
    /\ Table = TableOfRecords(EmptyTable, RecordLines(ReadBeforeError))
    /\ error = "ValueError" => IsRecordLine(file[Len(file)])

\* a load that read a skipped line and a record line
C8_Witness ==
    /\ pc = "done"
    /\ Len(nodes) > 0
    /\ \E k \in 1 .. Len(file) : file[k].comment
    /\ Len(RecordLines(file)) < Len(file)

\* C9: after any sequence of loads, the table, vertices, edges and markers of
\* a successful load are those the file gives on a fresh importer.
C9_LoadDependsOnLastFileOnly ==
    LoadSucceeded =>
        LET t == TableOfLines(EmptyTable, file)
        IN  /\ Table = t
            /\ edges = << ResolveEdges(t.nodes, t.index_from_id) >>
            /\ pc = "done" => spheres = << create_node_spheres(t.nodes) >>
            /\ pc = "done" => skeleton = create_skeleton(t.nodes, t.vertices, edges[1])

\* a load that succeeded after this importer had read other lines before
C9_Witness ==
    /\ pc = "done"
    /\ reads > Len(file)
    /\ Len(vertices) = 1

\* C10: after load_swc_file succeeds, both ends of every edge are indices of
\* vertices, there are at most as many edges as ids in the table, and
\* vertices has one entry per accepted line (node_count).
C10_EdgesInRange ==
    LoadSucceeded =>
        /\ \A j \in 1 .. Len(EdgeList) :
              /\ EdgeList[j][1] \in 0 .. Len(vertices) - 1
              /\ EdgeList[j][2] \in 0 .. Len(vertices) - 1
        /\ Len(EdgeList) <= Cardinality({ nodes[k].id : k \in 1 .. Len(nodes) })
        /\ Len(vertices) = node_count
        /\ node_count = Len(RecordLines(file))

\* a load of two lines that gave an edge
C10_Witness ==
    /\ pc = "done"
    /\ Len(vertices) = 2
    /\ EdgeList # <<>>

====
